---- MODULE Spec2Model ----
(***************************************************************************)
(* GroomingAlertSystem: the controller (Electron main process, main.js,    *)
(* and its renderer scripts), the network between controller and daemon,   *)
(* and the playback daemon.  The daemon's sources (pi-listener/) are not   *)
(* part of src/; its operators are written from spec.md sections 4.1-4.3.  *)
(***************************************************************************)
EXTENDS Integers, Sequences, FiniteSets, TLC

(* ------------------------------------------------------------------ *)
(* Bounds of the model                                                  *)
(* ------------------------------------------------------------------ *)

\* play-announcement invocations followed per run
MaxCalls == 2

\* the axios timeout, counted in ticks of the model's clock
TimeoutTicks == 1

(* ------------------------------------------------------------------ *)
(* JavaScript values held in the settings object                        *)
(* ------------------------------------------------------------------ *)

Undefined == [t |-> "undefined", n |-> 0, s |-> ""]

JsNumber(n) == [t |-> "number", n |-> n, s |-> ""]

JsString(s) == [t |-> "string", n |-> 0, s |-> s]

\* main.js:7, the address the controller starts with
DefaultAddress == "192.168.1.100"

\* main.js:8, the port the controller starts with
DefaultPort == 8080

\* main.js:90, axios timeout in milliseconds
TimeoutMs == 5000

\* main.js:6-9, the module-level settings object (no apiToken key)
DefaultSettings ==
  [piAddress |-> JsString(DefaultAddress),
   piPort |-> JsNumber(DefaultPort),
   apiToken |-> Undefined]

\* spec.md 4.4: the default the Settings Store documents
DocumentedDefault ==
  [piAddress |-> JsString(""),
   piPort |-> JsNumber(8080),
   apiToken |-> JsString("")]

\* keys of the settings object, in insertion order
Keys == <<"piAddress", "piPort", "apiToken">>

(* ------------------------------------------------------------------ *)
(* settings.json: JSON.stringify / JSON.parse                           *)
(* The text of the file is a sequence of tokens: "{", one member per    *)
(* defined key, "}".  A write cut short leaves a proper prefix.         *)
(* ------------------------------------------------------------------ *)

Brace(b) == [tok |-> b, key |-> "", val |-> Undefined]

Member(k, v) == [tok |-> "member", key |-> k, val |-> v]

\* JSON.stringify(settings, null, 2): keys whose value is undefined are omitted
Stringify(s) ==
  LET all == [i \in 1..Len(Keys) |-> Member(Keys[i], s[Keys[i]])]
      IsDefined(m) == m.val.t # "undefined"
  IN  <<Brace("{")>> \o SelectSeq(all, IsDefined) \o <<Brace("}")>>

\* JSON.parse accepts the text only when it is a complete object
WellFormed(text) ==
  /\ Len(text) >= 2
  /\ text[1].tok = "{"
  /\ text[Len(text)].tok = "}"
  /\ \A i \in 2..(Len(text) - 1) : text[i].tok = "member"

\* JSON.parse of a complete object: the value of each key present, else undefined
Parse(text) ==
  [k \in {Keys[i] : i \in 1..Len(Keys)} |->
     IF \E i \in 2..(Len(text) - 1) : text[i].key = k
     THEN (CHOOSE m \in {text[i] : i \in 2..(Len(text) - 1)} : m.key = k).val
     ELSE Undefined]

NoFile == [exists |-> FALSE, text |-> <<>>]

FileOf(text) == [exists |-> TRUE, text |-> text]

\* loadSettings: replace the settings by the parsed file; on a missing file or a
\* parse error keep what is in memory
LoadSettings(cur, f) ==
  IF f.exists /\ WellFormed(f.text) THEN Parse(f.text) ELSE cur

\* save-settings: settings = { ...settings, ...newSettings }
\* (a key the renderer does not pass is Undefined in newSettings)
Merge(cur, new) ==
  [k \in DOMAIN cur |-> IF new[k] = Undefined THEN cur[k] ELSE new[k]]

(* ------------------------------------------------------------------ *)
(* What the settings dialog can pass to save-settings                   *)
(* ------------------------------------------------------------------ *)

\* text of the pi-address input
AddressInputs == {DefaultAddress, "pi.local"}

\* text of the pi-port input
PortInputs == {"8080", "99999", "abc"}

\* text of the api-token input
TokenInputs == {"T1", "T2"}

\* first renderer's save-btn handler: { piAddress, piPort }, values are input texts
SaveInputsNoToken ==
  {[piAddress |-> JsString(a), piPort |-> JsString(p), apiToken |-> Undefined] :
     a \in AddressInputs, p \in PortInputs}

\* second renderer's save-btn handler: { piAddress, piPort, apiToken }
SaveInputsWithToken ==
  {[piAddress |-> JsString(a), piPort |-> JsString(p), apiToken |-> JsString(k)] :
     a \in AddressInputs, p \in PortInputs, k \in TokenInputs}

SaveInputs == SaveInputsNoToken \cup SaveInputsWithToken

\* the dialog filled in as the README describes: an address, port 8080 and the
\* API token the daemon printed at setup
ProfileInputs == {new \in SaveInputsWithToken : new.piPort = JsString("8080")}

(* ------------------------------------------------------------------ *)
(* The network, as the controller's HTTP client sees it                 *)
(* ------------------------------------------------------------------ *)

\* `http://${settings.piAddress}:${settings.piPort}/play`: the port as interpolated
PortText(v) == IF v.t = "number" THEN ToString(v.n) ELSE v.s

Url(s) == [host |-> s.piAddress.s, port |-> PortText(s.piPort)]

\* where the daemon listens (pi-installer.sh opens 8080/tcp)
DaemonEndpoint == [host |-> DefaultAddress, port |-> "8080"]

\* some other HTTP server of the local network, which answers as it likes
PeerEndpoint == [host |-> "pi.local", port |-> "8080"]

\* the statuses of spec.md 6 (Command endpoint)
HttpStatuses == {200, 400, 401, 404, 409, 502}

\* the request carries no Authorization header
NoAuthorization == "absent"

\* announcement buttons' data-audio attributes, as path segments
Bell == <<"bell.mp3">>

Ready == <<"ready.mp3">>

Missing == <<"missing.mp3">>

ButtonAudio == {Bell, Missing}

(* ------------------------------------------------------------------ *)
(* ipcMain.handle('play-announcement')                                  *)
(* ------------------------------------------------------------------ *)

NoError == [kind |-> "none", code |-> 0]

\* how the transport of a request ended: an HTTP response with this status,
\* no connection (refused, or the host did not resolve), or the timer expired
HttpResponse(status) == [kind |-> "http", code |-> status]

NoConnection(kind) == [kind |-> kind, code |-> 0]

TimerExpired == [kind |-> "timer", code |-> 0]

\* axios: "Request failed with status code <status>"
StatusError(status) == [kind |-> "status", code |-> status]

\* axios: "timeout of 5000ms exceeded"
TimeoutError == [kind |-> "timeout", code |-> TimeoutMs]

\* node: "connect ECONNREFUSED ...", "getaddrinfo ENOTFOUND ..."
ConnectErrors == {"ECONNREFUSED", "ENOTFOUND"}

ConnectError(kind) == [kind |-> kind, code |-> 0]

NoResult == [success |-> FALSE, message |-> [text |-> "", error |-> NoError]]

\* main.js:92
Delivered ==
  [success |-> TRUE,
   message |-> [text |-> "Announcement sent successfully!", error |-> NoError]]

\* main.js:94-97: `Failed to send announcement: ${error.message}`
Failure(err) ==
  [success |-> FALSE,
   message |-> [text |-> "Failed to send announcement: ", error |-> err]]

\* the headers of the POST: the third argument of axios.post is { timeout: 5000 }
RequestAuthorization(s) == NoAuthorization

\* the body of the POST: { audio: audioFile }
RequestBody(audioFile) == [ok |-> TRUE, audio |-> audioFile]

\* the handler up to its await: build the URL from the settings and send one POST
NewCall(id, audioFile, s) ==
  [id |-> id, audio |-> audioFile, url |-> Url(s), auth |-> RequestAuthorization(s),
   sent |-> 1, wire |-> "inflight", elapsed |-> 0,
   state |-> "pending", result |-> NoResult]

\* axios' default validateStatus
ValidateStatus(status) == status >= 200 /\ status < 300

\* a catch block that posts the announcement once more before giving up
OnErrorRetry(call, err) ==
  IF call.sent < 2
  THEN [call EXCEPT !.sent = @ + 1, !.wire = "inflight", !.elapsed = 0]
  ELSE [call EXCEPT !.state = "returned", !.result = Failure(err)]

\* a catch block that drops error.message from the result
OnErrorGeneric(call, err) ==
  [call EXCEPT !.state = "returned", !.result = Failure(NoError)]

\* the catch block: the error becomes the result, the request is not sent again
OnError(call, err) ==
  [call EXCEPT !.state = "returned", !.result = Failure(err)]

\* the await resumes with a response
OnResponse(call, status) ==
  IF ValidateStatus(status)
  THEN [call EXCEPT !.state = "returned", !.result = Delivered]
  ELSE OnError(call, StatusError(status))

\* axios.post called without the timeout option: no timer
TimerNotArmed(call) == FALSE

\* the timer axios arms for the request: { timeout: 5000 }
TimerArmed(call) == call.state = "pending"

(* ------------------------------------------------------------------ *)
(* The daemon (spec.md 4.1 - 4.3)                                       *)
(* ------------------------------------------------------------------ *)

\* credentials the Token Store may hold
Credentials == {"T1", "T2"}

\* the Audio Catalog
Catalog == {Bell, Ready}

\* how the external player ends: exit 0, exit nonzero, or hung and killed
Fates == {"exit0", "exit1", "hang"}

\* an identifier with a path separator splits into several segments
Traversal == <<"..", "bell.mp3">>

Malformed == [ok |-> FALSE, audio |-> <<>>]

\* what an arbitrary network client can put in a request
AuthInputs == {NoAuthorization} \cup Credentials

BodyInputs == {Malformed} \cup {[ok |-> TRUE, audio |-> a] : a \in {Bell, Ready, Missing, Traversal, <<>>}}

\* a second, configured client of the daemon playing an announcement
OtherClientBodies == {[ok |-> TRUE, audio |-> Ready]}

(* ------------------------------------------------------------------ *)
(* State                                                                *)
(* ------------------------------------------------------------------ *)

VARIABLES
  running,    \* the controller process is up
  settings,   \* main.js: the in-memory settings object
  file,       \* settings.json on disk
  lastSave,   \* history: the most recent save-settings call that returned
  calls,      \* the play-announcement invocations awaiting their result
  nCalls,     \* history: play-announcement invocations so far
  nSent,      \* history: POSTs sent by the controller so far
  lastReturn, \* history: the most recent invocation that returned
  token,      \* daemon: the Token Store's current credential
  jobs,       \* daemon: the live Playback Jobs
  lastResp    \* daemon: the most recent request handled by the Command Server

storeVars == <<running, settings, file, lastSave>>

clientVars == <<calls, nCalls, nSent, lastReturn>>

daemonVars == <<token, jobs, lastResp>>

vars == <<running, settings, file, lastSave, calls, nCalls, nSent, lastReturn,
          token, jobs, lastResp>>

NoSave == [made |-> FALSE, profile |-> DefaultSettings]

NoReturn == [id |-> 0, cause |-> NoError, result |-> NoResult]

NoEvent ==
  [kind |-> "none", call |-> 0, auth |-> NoAuthorization, body |-> Malformed,
   authentic |-> FALSE, busy |-> FALSE, created |-> FALSE, status |-> 0]

Init ==
  /\ running = TRUE
  /\ settings = DefaultSettings
  /\ file = NoFile
  /\ lastSave = NoSave
  /\ calls = {}
  /\ nCalls = 0
  /\ nSent = 0
  /\ lastReturn = NoReturn
  /\ token = "T1"
  /\ jobs = {}
  /\ lastResp = NoEvent

(* ------------------------------------------------------------------ *)
(* Settings Store                                                       *)
(* ------------------------------------------------------------------ *)

\* saveSettings: fs.writeFileSync(settingsPath, JSON.stringify(settings, null, 2))
WriteFile(s) == FileOf(Stringify(s))

\* ipcMain.handle('get-settings')
GetSettings == settings

\* ipcMain.handle('save-settings'): merge, write the file, report success
SaveSettings(new) ==
  /\ running
  /\ settings' = Merge(settings, new)
  /\ file' = WriteFile(settings')
  /\ lastSave' = [made |-> TRUE, profile |-> settings']
  /\ UNCHANGED <<running, clientVars, daemonVars>>

\* what fs.writeFileSync leaves on disk when it throws: the file as it was
\* (it could not be opened for writing) or a proper prefix of the text (the
\* write failed after the file was truncated)
FailedWrites(f, text) ==
  {f} \cup {FileOf(SubSeq(text, 1, cut)) : cut \in 0..(Len(text) - 1)}

\* ipcMain.handle('save-settings') when fs.writeFileSync throws: saveSettings
\* catches and logs the error, the handler still reports success
SaveSettingsWriteFails(new) ==
  /\ running
  /\ settings' = Merge(settings, new)
  /\ file' \in FailedWrites(file, Stringify(settings'))
  /\ lastSave' = [made |-> TRUE, profile |-> settings']
  /\ UNCHANGED <<running, clientVars, daemonVars>>

\* the process dies inside fs.writeFileSync: the file was opened for writing
\* (truncated) and only the first cut tokens reached the disk
SaveInterrupted(new, cut) ==
  /\ running
  /\ cut < Len(Stringify(Merge(settings, new)))
  /\ file' = FileOf(SubSeq(Stringify(Merge(settings, new)), 1, cut))
  /\ running' = FALSE
  /\ settings' = DefaultSettings
  /\ calls' = {}
  /\ UNCHANGED <<lastSave, nCalls, nSent, lastReturn, daemonVars>>

\* the controller process ends (quit, kill, power loss) outside a save;
\* the invocations awaiting their result are gone with it
Crash ==
  /\ running
  /\ running' = FALSE
  /\ settings' = DefaultSettings
  /\ calls' = {}
  /\ UNCHANGED <<file, lastSave, nCalls, nSent, lastReturn, daemonVars>>

\* app.whenReady().then(createWindow): the module's initial settings, then loadSettings
Startup ==
  /\ ~running
  /\ running' = TRUE
  /\ settings' = LoadSettings(DefaultSettings, file)
  /\ UNCHANGED <<file, lastSave, clientVars, daemonVars>>

NextStore ==
  \/ \E new \in SaveInputs : SaveSettings(new)
  \/ \E new \in SaveInputs : SaveSettingsWriteFails(new)
  \/ \E new \in SaveInputs, cut \in 0..(Len(Keys) + 1) : SaveInterrupted(new, cut)
  \/ Crash
  \/ Startup

SpecStore == Init /\ [][NextStore]_vars

(* ------------------------------------------------------------------ *)
(* Command Client: ipcMain.handle('play-announcement') and its network  *)
(* ------------------------------------------------------------------ *)

\* a literal IPv4 address needs no name resolution
IsIpLiteral(host) == host = DefaultAddress

\* the handler resumes after its await: c becomes after, which has returned
\* (and leaves the pending invocations) or awaits again
Resume(c, cause, after) ==
  /\ calls' = IF after.state = "pending" THEN (calls \ {c}) \cup {after} ELSE calls \ {c}
  /\ lastReturn' = IF after.state = "pending" THEN lastReturn
                   ELSE [id |-> c.id, cause |-> cause, result |-> after.result]
  /\ nSent' = nSent + (after.sent - c.sent)
  /\ UNCHANGED nCalls

\* the renderer invokes play-announcement (any button, at any time)
PlayAnnouncement(audioFile) ==
  /\ running
  /\ nCalls < MaxCalls
  /\ calls' = calls \cup {NewCall(nCalls + 1, audioFile, settings)}
  /\ nCalls' = nCalls + 1
  /\ nSent' = nSent + NewCall(nCalls + 1, audioFile, settings).sent
  /\ UNCHANGED <<storeVars, lastReturn, daemonVars>>

\* an announcement button is clicked: the handler reads data-audio and invokes
\* play-announcement, whether or not an earlier click still awaits its result
\* (no handler disables a button or keeps a flag)
ClickAnnouncement(audioFile) == PlayAnnouncement(audioFile)

\* the connection cannot be made: axios rejects
ConnectFails(c, kind) ==
  /\ c \in calls
  /\ c.wire = "inflight"
  /\ kind = "ENOTFOUND" => ~IsIpLiteral(c.url.host)
  /\ Resume(c, NoConnection(kind), OnError(c, ConnectError(kind)))
  /\ UNCHANGED <<storeVars, daemonVars>>

\* whatever listens at an address that is not the daemon's answers with a status
PeerAnswers(c, status) ==
  /\ c \in calls
  /\ c.wire = "inflight"
  /\ c.url = PeerEndpoint
  /\ Resume(c, HttpResponse(status), OnResponse(c, status))
  /\ UNCHANGED <<storeVars, daemonVars>>

\* the timeout of the request elapses: axios rejects
Timeout(c) ==
  /\ c \in calls
  /\ TimerArmed(c)
  /\ c.elapsed >= TimeoutTicks
  /\ Resume(c, TimerExpired, OnError(c, TimeoutError))
  /\ UNCHANGED <<storeVars, daemonVars>>

\* time passes; a timer that is due fires before time moves on
Tick ==
  /\ \E c \in calls : c.elapsed < TimeoutTicks
  /\ \A c \in calls : TimerArmed(c) => c.elapsed < TimeoutTicks
  /\ calls' = {IF c.elapsed < TimeoutTicks THEN [c EXCEPT !.elapsed = @ + 1] ELSE c :
                 c \in calls}
  /\ UNCHANGED <<storeVars, nCalls, nSent, lastReturn, daemonVars>>

(* ------------------------------------------------------------------ *)
(* Daemon: Command Server, Playback Engine, Token Store                 *)
(* ------------------------------------------------------------------ *)

\* 4.3 stage 1: the bearer credential equals the Token Store's current value
Authenticated(q) == q.auth = token

\* 4.2: no path separator, no parent-directory segment
SafeIdentifier(a) == Len(a) = 1 /\ a[1] \notin {"..", "."}

\* 4.3 stage 2: well-formed body with a non-empty, safe identifier
ShapeValid(q) == q.body.ok /\ Len(q.body.audio) > 0 /\ SafeIdentifier(q.body.audio)

\* 4.2: the single playback slot
SlotFree == \A j \in jobs : j.state # "playing"

Accepted == 0

\* a pipeline whose engine starts a playback without looking at the slot
PipelineNoSlotCheck(q) ==
  IF ~Authenticated(q) THEN 401
  ELSE IF ~ShapeValid(q) THEN 400
  ELSE IF q.body.audio \notin Catalog THEN 404
  ELSE Accepted

\* a pipeline that validates the body before it authenticates
PipelineShapeFirst(q) ==
  IF ~ShapeValid(q) THEN 400
  ELSE IF ~Authenticated(q) THEN 401
  ELSE IF q.body.audio \notin Catalog THEN 404
  ELSE IF ~SlotFree THEN 409
  ELSE Accepted

\* 4.3: the pipeline, each stage short-circuiting; Accepted when playback starts
Pipeline(q) ==
  IF ~Authenticated(q) THEN 401
  ELSE IF ~ShapeValid(q) THEN 400
  ELSE IF q.body.audio \notin Catalog THEN 404
  ELSE IF ~SlotFree THEN 409
  ELSE Accepted

\* 4.2: exit code 0 is completed, anything else (or a kill at the ceiling) failed
TerminalState(fate) == IF fate = "exit0" THEN "completed" ELSE "failed"

\* 4.3 stage 3: completed -> 200, failed -> 502
TerminalStatus(fate) == IF TerminalState(fate) = "completed" THEN 200 ELSE 502

\* what the Command Server did with request q of invocation c (0: another client)
Event(c, q, st) ==
  [kind |-> "handled", call |-> c, auth |-> q.auth, body |-> q.body,
   authentic |-> q.auth = token, busy |-> jobs # {},
   created |-> jobs' # jobs, status |-> st]

\* a Command Server that stops the playback in progress when it answers busy
HandlePreempt(c, q) ==
  /\ IF Pipeline(q) = Accepted
     THEN \E f \in Fates :
            jobs' = jobs \cup {[call |-> c, audio |-> q.body.audio,
                                state |-> "playing", fate |-> f]}
     ELSE IF Pipeline(q) = 409 THEN jobs' = {} ELSE jobs' = jobs
  /\ lastResp' = Event(c, q, Pipeline(q))
  /\ UNCHANGED token

\* one request handled by the Command Server
Handle(c, q) ==
  /\ IF Pipeline(q) = Accepted
     THEN \E f \in Fates :
            jobs' = jobs \cup {[call |-> c, audio |-> q.body.audio,
                                state |-> "playing", fate |-> f]}
     ELSE jobs' = jobs
  /\ lastResp' = Event(c, q, Pipeline(q))
  /\ UNCHANGED token

\* a POST of the controller arrives at the daemon
DaemonReceive(c) ==
  /\ c \in calls
  /\ c.wire = "inflight"
  /\ c.url = DaemonEndpoint
  /\ LET q == [auth |-> c.auth, body |-> RequestBody(c.audio)]
     IN  /\ Handle(c.id, q)
         /\ IF Pipeline(q) = Accepted
            THEN /\ calls' = (calls \ {c}) \cup {[c EXCEPT !.wire = "accepted"]}
                 /\ UNCHANGED <<nCalls, nSent, lastReturn>>
            ELSE Resume(c, HttpResponse(Pipeline(q)), OnResponse(c, Pipeline(q)))
  /\ UNCHANGED storeVars

\* a POST of any other client of the network arrives at the daemon
ExternalRequest(auth, body) ==
  /\ Handle(0, [auth |-> auth, body |-> body])
  /\ UNCHANGED <<storeVars, clientVars>>

\* the player of a job ends: the slot is released and the request answered
PlayerExit(j) ==
  /\ j \in jobs
  /\ j.state = "playing"
  /\ jobs' = jobs \ {j}
  /\ lastResp' = [kind |-> "finished", call |-> j.call, auth |-> NoAuthorization,
                  body |-> RequestBody(j.audio), authentic |-> TRUE, busy |-> TRUE,
                  created |-> FALSE, status |-> TerminalStatus(j.fate)]
  /\ IF \E c \in calls : c.id = j.call /\ c.wire = "accepted"
     THEN LET c == CHOOSE c \in calls : c.id = j.call /\ c.wire = "accepted"
          IN  Resume(c, HttpResponse(TerminalStatus(j.fate)),
                     OnResponse(c, TerminalStatus(j.fate)))
     ELSE UNCHANGED clientVars
  /\ UNCHANGED <<storeVars, token>>

\* 4.1 issue(): the operator regenerates the credential
IssueToken(t) ==
  /\ t # token
  /\ token' = t
  /\ UNCHANGED <<storeVars, clientVars, jobs, lastResp>>

NextDaemon ==
  \/ \E a \in AuthInputs, b \in BodyInputs : ExternalRequest(a, b)
  \/ \E j \in jobs : PlayerExit(j)
  \/ \E t \in Credentials : IssueToken(t)

SpecDaemon == Init /\ [][NextDaemon]_vars

(* ------------------------------------------------------------------ *)
(* Controller, network and daemon together                              *)
(* ------------------------------------------------------------------ *)

Next ==
  \/ \E new \in ProfileInputs : SaveSettings(new)
  \/ Crash
  \/ Startup
  \/ \E a \in ButtonAudio : ClickAnnouncement(a)
  \/ \E c \in calls, k \in ConnectErrors : ConnectFails(c, k)
  \/ \E c \in calls, s \in HttpStatuses : PeerAnswers(c, s)
  \/ \E c \in calls : Timeout(c)
  \/ Tick
  \/ \E c \in calls : DaemonReceive(c)
  \/ \E a \in Credentials, b \in OtherClientBodies : ExternalRequest(a, b)
  \/ \E j \in jobs : PlayerExit(j)
  \/ \E t \in Credentials : IssueToken(t)

Spec == Init /\ [][Next]_vars

(* ------------------------------------------------------------------ *)
(* The controller and what answers it: the daemon, a peer, or nothing   *)
(* ------------------------------------------------------------------ *)

NextClient ==
  \/ \E new \in ProfileInputs : SaveSettings(new)
  \/ \E a \in ButtonAudio : ClickAnnouncement(a)
  \/ \E c \in calls, k \in ConnectErrors : ConnectFails(c, k)
  \/ \E c \in calls, s \in HttpStatuses : PeerAnswers(c, s)
  \/ \E c \in calls : Timeout(c)
  \/ Tick
  \/ \E c \in calls : DaemonReceive(c)

SpecClient == Init /\ [][NextClient]_vars

\* the timers of the runtime fire and time passes
LiveClient == SpecClient /\ WF_vars(Tick) /\ WF_vars(\E c \in calls : Timeout(c))

(* ------------------------------------------------------------------ *)
(* C1: authenticated dispatch                                           *)
(* ------------------------------------------------------------------ *)

\* C1, first part: the POST a play-announcement invocation sends carries the
\* credential of the profile in memory as its bearer credential
C1_CarriesCredential ==
  \A c \in calls' \ calls :
    (nCalls' = nCalls + 1 /\ settings.apiToken.t = "string")
      => c.auth = settings.apiToken.s

\* C1, second part: a POST of a controller whose profile holds the daemon's
\* current credential, for a catalog identifier, arriving while the slot is
\* free, starts the playback (and is answered 200 when the player exits 0)
C1_Accepted ==
  \A c \in calls :
    (/\ c.wire = "inflight"
     /\ lastResp' # lastResp
     /\ lastResp'.kind = "handled"
     /\ lastResp'.call = c.id
     /\ running
     /\ settings.apiToken = JsString(token)
     /\ c.audio \in Catalog
     /\ jobs = {})
      => lastResp'.status = Accepted

\* C1: every POST /play of the controller carries Authorization: Bearer
\* <credential of the current profile>, so a dispatch with the daemon's current
\* credential, a catalog identifier and a free slot is accepted and delivered
C1_AuthenticatedDispatch == [][C1_CarriesCredential /\ C1_Accepted]_vars

(* ------------------------------------------------------------------ *)
(* C2 - C4: the daemon                                                  *)
(* ------------------------------------------------------------------ *)

\* C2: at most one Playback Job is in the playing state
C2_SinglePlayback == Cardinality({j \in jobs : j.state = "playing"}) <= 1

\* a request arrived while a job was playing, was answered busy, and the job plays on
C2_Witness ==
  /\ \E j \in jobs : j.state = "playing"
  /\ lastResp.kind = "handled"
  /\ lastResp.status = 409

\* C3: a request whose bearer credential is missing or is not the Token Store's
\* current value is answered 401 and creates no Playback Job, whatever its body,
\* its identifier and the state of the slot
C3_UnauthorizedFirst ==
  (lastResp.kind = "handled" /\ ~lastResp.authentic)
    => (lastResp.status = 401 /\ ~lastResp.created)

\* a well-formed request for a catalog identifier with a wrong credential,
\* arriving while the slot is busy, was answered 401
C3_Witness ==
  /\ lastResp.kind = "handled"
  /\ lastResp.auth \in Credentials
  /\ ~lastResp.authentic
  /\ lastResp.body.ok
  /\ lastResp.body.audio \in Catalog
  /\ lastResp.busy
  /\ lastResp.status = 401

C4_BusyAnswer ==
  (/\ lastResp.kind = "handled"
   /\ lastResp.authentic
   /\ lastResp.busy
   /\ lastResp.body.ok
   /\ lastResp.body.audio \in Catalog)
    => (lastResp.status = 409 /\ ~lastResp.created)

\* a live job leaves only when its own player ends, with the terminal status
\* its player's exit decides
C4_Unaffected ==
  \A j \in jobs :
    \/ j \in jobs'
    \/ /\ lastResp'.kind = "finished"
       /\ lastResp'.call = j.call
       /\ lastResp'.status = TerminalStatus(j.fate)

IsDelivered(r) == r.success

IsRejected(r) == ~r.success /\ r.message.error.kind = "status"

RejectedReason(r) == r.message.error.code

IsUnreachable(r) ==
  ~r.success /\ r.message.error.kind \in (ConnectErrors \cup {"timeout"})

\* C5 as stated: Delivered iff 200; Rejected(reason) iff the server answered
\* 401, 400, 404 or 409, the reason naming the status; Unreachable iff the
\* connection was refused, the host did not resolve or the timeout elapsed
C5_Taxonomy ==
  lastReturn.id # 0 =>
    LET r == lastReturn.result
        o == lastReturn.cause
    IN  /\ IsDelivered(r) <=> o = HttpResponse(200)
        /\ IsRejected(r) <=> (o.kind = "http" /\ o.code \in {401, 400, 404, 409})
        /\ IsRejected(r) => RejectedReason(r) = o.code
        /\ IsUnreachable(r) <=> o.kind \in (ConnectErrors \cup {"timer"})

\* C5, amended: Delivered iff 200; Rejected(reason) iff the server answered with
\* an error status (401, 400, 404, 409 or 502), the reason naming the status;
\* Unreachable iff refused, unresolved or timed out; exactly one of the three
C5_TaxonomyWith502 ==
  lastReturn.id # 0 =>
    LET r == lastReturn.result
        o == lastReturn.cause
    IN  /\ IsDelivered(r) <=> o = HttpResponse(200)
        /\ IsRejected(r) <=> (o.kind = "http" /\ o.code \in {401, 400, 404, 409, 502})
        /\ IsRejected(r) => RejectedReason(r) = o.code
        /\ IsUnreachable(r) <=> o.kind \in (ConnectErrors \cup {"timer"})
        /\ Cardinality({x \in {"d", "r", "u"} :
                          \/ x = "d" /\ IsDelivered(r)
                          \/ x = "r" /\ IsRejected(r)
                          \/ x = "u" /\ IsUnreachable(r)}) = 1

\* the server answered 409 and the caller got a Rejected result naming 409
C5_Witness ==
  /\ lastReturn.id # 0
  /\ lastReturn.cause = HttpResponse(409)
  /\ IsRejected(lastReturn.result)
  /\ RejectedReason(lastReturn.result) = 409

\* C6: each play-announcement invocation sends at most one POST, so the POSTs
\* sent never outnumber the invocations
C6_NoRetry ==
  /\ nSent <= nCalls
  /\ \A c \in calls : c.sent <= 1

\* two invocations were made, the second failed, and two POSTs were sent
C6_Witness ==
  /\ nCalls = 2
  /\ nSent = 2
  /\ lastReturn.id = 2
  /\ ~lastReturn.result.success

\* C7: every invocation returns a result: none stays pending forever, a timer
\* that expires yields a non-success result, and none ends without a result
C7_EventuallyReturns ==
  /\ \A id \in 1..MaxCalls :
       (\E c \in calls : c.id = id) ~> ~(\E c \in calls : c.id = id)
  /\ [](lastReturn.id # 0 => lastReturn.result # NoResult)
  /\ [](lastReturn.cause = TimerExpired => IsUnreachable(lastReturn.result))

\* an invocation returned Unreachable because its timer expired
C7_Witness ==
  /\ lastReturn.id # 0
  /\ lastReturn.cause = TimerExpired
  /\ IsUnreachable(lastReturn.result)

(* ------------------------------------------------------------------ *)
(* C8 - C10: the Settings Store                                         *)
(* ------------------------------------------------------------------ *)

\* the number a port text denotes, for the texts of PortInputs; -1 is NaN
TextToNumber(s) ==
  CASE s = "8080" -> 8080
    [] s = "99999" -> 99999
    [] OTHER -> -1

\* an integer in 1..65535 (a text is read as the number it denotes)
ValidPort(v) ==
  (IF v.t = "number" THEN v.n ELSE TextToNumber(v.s)) \in 1..65535

\* C8: the port in memory and the port in the settings file are always an
\* integer in 1..65535
C8_PortValidated ==
  /\ ValidPort(settings.piPort)
  /\ (file.exists /\ WellFormed(file.text)) => ValidPort(Parse(file.text).piPort)

\* C9: the settings file found at a startup is a complete profile, never a
\* truncated, partial or unparsable one
C9_FileNeverPartial == ~running => (file.exists => WellFormed(file.text))

\* get-settings returns the most recent save's profile, or the documented default
C10_Get ==
  running =>
    GetSettings = (IF lastSave.made THEN lastSave.profile ELSE DocumentedDefault)

\* a dispatch made after a save uses that save's address, port and credential
C10_DispatchUses ==
  \A c \in calls' \ calls :
    (nCalls' = nCalls + 1 /\ lastSave.made)
      => (c.url = Url(lastSave.profile) /\ c.auth = lastSave.profile.apiToken.s)

\* C10: get-settings returns the profile of the most recent save, the documented
\* default when none was saved, and every dispatch after a save uses that save's
\* address, port and credential
C10_LastSaveWins == []C10_Get /\ [][C10_DispatchUses]_vars

(* ------------------------------------------------------------------ *)
(* C11: one outstanding dispatch                                        *)
(* ------------------------------------------------------------------ *)

\* C11: at most one play-announcement invocation awaits its result at any time
C11_OneOutstanding == Cardinality(calls) <= 1

(* ------------------------------------------------------------------ *)
(* C12: a save reported as successful is on disk                        *)
(* ------------------------------------------------------------------ *)

\* C12: while the profile in memory is the one of the most recent save-settings
\* call that returned {success: true}, the settings file holds that profile
C12_SavedIsPersisted ==
  (running /\ lastSave.made /\ GetSettings = lastSave.profile)
    => (file.exists /\ WellFormed(file.text) /\ Parse(file.text) = GetSettings)
====
